---- MODULE Spec2Model ----
(***************************************************************************)
(* q2-gunc: result directories (GUNCResultsDirectoryFormat.file_dict),     *)
(* their collation (collate_gunc_results), the report builder (visualize / *)
(* _process_sample), the transformers to a table (_read_dataframes), the   *)
(* validation of a result file (GUNCResultsFormat) and the runs of the     *)
(* external tool (_run_gunc).                                              *)
(*                                                                         *)
(* A directory tree is a record [dirs, files]: dirs is the set of paths of *)
(* its directories (the root is <<>>), files maps the path of every        *)
(* regular file to its content.  A path is a sequence of entry names.      *)
(***************************************************************************)
EXTENDS Integers, Sequences, FiniteSets, TLC

VARIABLES
    fdRoot,     \* file_dict: the tree self.path points to
    fdResult,   \* file_dict: the returned dict (key -> path below the root)
    fdPc,       \* file_dict: "call" before the call, "returned" after it
    cInputs,    \* collate_gunc_results: the sequence `results` of input trees
    cOut,       \* collate_gunc_results: the tree of `output`
    cI,         \* collate_gunc_results: index of the input the outer loop is at
    cTodo,      \* collate_gunc_results: keys of result.file_dict() not yet copied
    cPc,        \* collate_gunc_results: "idle", "run", "done" or "error"
    pCells,     \* _process_sample: the pass.GUNC cells of one summary file
    pOut,       \* _process_sample: the pass_gunc fields built from them
    pPc,        \* _process_sample: "idle", "read" or "done"
    vResults,   \* visualize: the tree of `results`
    vThreads,   \* visualize: `threads`, the max_workers of the pool
    vPc,        \* visualize: where the calling thread is
    vUnsub,     \* visualize: items of results.file_dict() not yet submitted
    vQueue,     \* the executor's queue of work items no worker has taken
    vTask,      \* per sample id: the state of its future and of its task
    vCollected, \* futures as_completed has yielded
    vSamples,   \* visualize: the dict `samples`
    vSummary,   \* visualize: the list `summary_data`
    vExc,       \* visualize: <<s>> while the exception of task s propagates
    vOut,       \* the tree of output_dir
    vRendered,  \* <<context>> once q2templates.render was called
    tResults,   \* _read_dataframes: the tree of `fmt`
    tTodo,      \* _read_dataframes: the (sample_id, mag_fp) pairs the loops have yet to reach
    tFrames,    \* _read_dataframes: the list `dataframes`
    tOut,       \* _read_dataframes: <<combined_df>> once it returned
    tErr,       \* _read_dataframes: the exception raised, "" if none
    tPc,        \* _read_dataframes: "idle", "read", "returned" or "raised"
    gHeader,    \* GUNCResultsFormat: the column names of the header line of the file
    gErr,       \* GUNCResultsFormat: the message of the ValidationError, "" if none
    gPc,        \* GUNCResultsFormat: "idle", "validate", "valid" or "raised"
    rMulti,     \* _run_gunc: whether mags is a MultiMAGSequencesDirFmt
    rSamples,   \* _run_gunc: the sample ids of mags.sample_dict(), in order
    rArgs,      \* _run_gunc: threads, sensitive, use_species_level, min_mapped_genes
    rBase,      \* _run_gunc: the list base_cmd
    rTodo,      \* _run_gunc: the sample ids the loop has yet to reach (<<"">>: the one call on the roots)
    rCalls,     \* the commands handed to run_command, each with its exit code
    rDirs,      \* the directories made under results.path
    rPc         \* _run_gunc: "idle", "run", "returned" or "raised"

varsFd == <<fdRoot, fdResult, fdPc>>

varsCollate == <<cInputs, cOut, cI, cTodo, cPc>>

varsCoerce == <<pCells, pOut, pPc>>

varsVis == <<vResults, vThreads, vPc, vUnsub, vQueue, vTask, vCollected,
             vSamples, vSummary, vExc, vOut, vRendered>>

varsTransform == <<tResults, tTodo, tFrames, tOut, tErr, tPc>>

varsValidate == <<gHeader, gErr, gPc>>

varsRun == <<rMulti, rSamples, rArgs, rBase, rTodo, rCalls, rDirs, rPc>>

vars == <<fdRoot, fdResult, fdPc, cInputs, cOut, cI, cTodo, cPc,
          pCells, pOut, pPc,
          vResults, vThreads, vPc, vUnsub, vQueue, vTask, vCollected,
          vSamples, vSummary, vExc, vOut, vRendered,
          tResults, tTodo, tFrames, tOut, tErr, tPc,
          gHeader, gErr, gPc,
          rMulti, rSamples, rArgs, rBase, rTodo, rCalls, rDirs, rPc>>

----------------------------------------------------------------------------
(* Bounds *)

\* number of sample identifiers that may occur in a result directory
MaxSamples == 2

\* length of the longest sequence of inputs handed to collate_gunc_results
MaxInputs == 2

\* sample identifiers, in a fixed table; the first MaxSamples are used
SampleName == <<"A", "B", "C", "D">>

SampleIds == {SampleName[i] : i \in 1..MaxSamples}

----------------------------------------------------------------------------
(* Directory trees *)

EmptyFiles == [p \in {} |-> "none"]

EmptyTree == [dirs |-> {<<>>}, files |-> EmptyFiles]

Last(p) == p[Len(p)]

\* Path.exists()
Exists(t, p) == p \in t.dirs \/ p \in DOMAIN t.files

\* Path.is_dir()
IsDir(t, p) == p \in t.dirs

\* Path.iterdir(): the entries directly under directory p, files included
IterDir(t, p) ==
    {q \in t.dirs \cup DOMAIN t.files :
        Len(q) = Len(p) + 1 /\ SubSeq(q, 1, Len(p)) = p}

\* pathlib's  path / name ; joining the empty string gives the path itself
Join(p, name) == IF name = "" THEN p ELSE Append(p, name)

----------------------------------------------------------------------------
(* GUNCResultsDirectoryFormat.file_dict *)

IsUnpartitionedNotDir(t) ==
    Exists(t, <<"gunc_output">>) /\ ~IsDir(t, <<"gunc_output">>)

\* subdir = self.path / "gunc_output"; subdir.exists() and subdir.is_dir()
IsUnpartitioned(t) ==
    Exists(t, <<"gunc_output">>) /\ IsDir(t, <<"gunc_output">>)

\* the returned dict: sample id -> path of the sample's subtree
file_dict(t) ==
    IF IsUnpartitioned(t)
    THEN [k \in {""} |-> <<>>]
    ELSE [k \in {Last(q) : q \in IterDir(t, <<>>)} |-> <<k>>]

----------------------------------------------------------------------------
(* Roots file_dict is called on: every top-level name is absent, a regular *)
(* file, an empty directory, or a directory holding gunc_output/ itself.   *)

TopNames == {"gunc_output", "notes.txt"} \cup SampleIds

EntryKinds == {"absent", "file", "dir", "dirg"}

RootOf(kind) ==
    [dirs  |-> {<<>>}
               \cup {<<n>> : n \in {m \in TopNames : kind[m] \in {"dir", "dirg"}}}
               \cup {<<n, "gunc_output">> : n \in {m \in TopNames : kind[m] = "dirg"}},
     files |-> [p \in {<<n>> : n \in {m \in TopNames : kind[m] = "file"}}
                      |-> "data"]]

FdIdle ==
    /\ fdRoot = EmptyTree
    /\ fdResult = EmptyFiles
    /\ fdPc = "idle"

CollateIdle ==
    /\ cInputs = <<>>
    /\ cOut = EmptyTree
    /\ cI = 0
    /\ cTodo = {}
    /\ cPc = "idle"

CoerceIdle ==
    /\ pCells = <<>>
    /\ pOut = <<>>
    /\ pPc = "idle"

VisIdle ==
    /\ vResults = EmptyTree
    /\ vThreads = 0
    /\ vPc = "idle"
    /\ vUnsub = <<>>
    /\ vQueue = <<>>
    /\ vTask = EmptyFiles
    /\ vCollected = {}
    /\ vSamples = EmptyFiles
    /\ vSummary = <<>>
    /\ vExc = <<>>
    /\ vOut = EmptyTree
    /\ vRendered = <<>>

TransformIdle ==
    /\ tResults = EmptyTree
    /\ tTodo = <<>>
    /\ tFrames = <<>>
    /\ tOut = <<>>
    /\ tErr = ""
    /\ tPc = "idle"

ValidateIdle ==
    /\ gHeader = <<>>
    /\ gErr = ""
    /\ gPc = "idle"

RunIdle ==
    /\ rMulti = FALSE
    /\ rSamples = <<>>
    /\ rArgs = <<>>
    /\ rBase = <<>>
    /\ rTodo = <<>>
    /\ rCalls = <<>>
    /\ rDirs = {}
    /\ rPc = "idle"

FdInit ==
    /\ \E kind \in [TopNames -> EntryKinds] : fdRoot = RootOf(kind)
    /\ fdResult = EmptyFiles
    /\ fdPc = "call"
    /\ CollateIdle
    /\ CoerceIdle
    /\ VisIdle
    /\ TransformIdle
    /\ ValidateIdle
    /\ RunIdle

\* obs_file_dict = fmt.file_dict()
CallFileDict ==
    /\ fdPc = "call"
    /\ fdResult' = file_dict(fdRoot)
    /\ fdPc' = "returned"
    /\ UNCHANGED fdRoot
    /\ UNCHANGED <<varsCollate, varsCoerce, varsVis, varsTransform, varsValidate, varsRun>>

SpecFileDict == FdInit /\ [][CallFileDict]_vars

----------------------------------------------------------------------------
(* shutil.copytree(src, dst, dirs_exist_ok=True)                           *)
(* The result layout gives directories and regular files different names,  *)
(* so a file is never copied onto a directory of the same path.            *)

IsPrefix(p, q) == Len(p) <= Len(q) /\ SubSeq(q, 1, Len(p)) = p

\* the part of q below its prefix p
Below(p, q) == SubSeq(q, Len(p) + 1, Len(q))

\* os.makedirs(dst, exist_ok=True) creates dst and its missing parents
Prefixes(q) == {SubSeq(q, 1, n) : n \in 0..Len(q)}

\* os.scandir(src) raises NotADirectoryError / FileNotFoundError
CopytreeFails(src, p) == ~IsDir(src, p)

CopiedContentKeep(src, f, dst, y) ==
    IF y \in DOMAIN dst.files THEN dst.files[y] ELSE src.files[f]

\* copy2 replaces the file at the destination path y by the source file f
CopiedContent(src, f, dst, y) == src.files[f]

\* the tree dst after copying the subtree p of src to the path q of dst
copytree(src, p, dst, q) ==
    LET srcFiles == {f \in DOMAIN src.files : IsPrefix(p, f)}
        srcDirs == {d \in src.dirs : IsPrefix(p, d)}
        target(x) == q \o Below(p, x)
        newFiles == {target(f) : f \in srcFiles}
        origin(y) == CHOOSE f \in srcFiles : target(f) = y
    IN  [dirs  |-> dst.dirs \cup Prefixes(q) \cup {target(d) : d \in srcDirs},
         files |-> [y \in DOMAIN dst.files \cup newFiles |->
                        IF y \in newFiles
                        THEN CopiedContent(src, origin(y), dst, y)
                        ELSE dst.files[y]]]

----------------------------------------------------------------------------
(* Input trees of collate_gunc_results.  A sample subtree is one of the    *)
(* variants below; the content of a file records the input it comes from   *)
(* and its name.                                                           *)

Variants == {"v0", "v1", "v2"}

VariantFiles(v) ==
    CASE v = "v1" -> {<<"gunc_output", "g1.all_levels.tsv">>,
                      <<"diamond_output", "g1.diamond.out">>,
                      <<"GUNC.maxCSS_level.tsv">>}
      [] v = "v2" -> {<<"gunc_output", "g1.all_levels.tsv">>,
                      <<"gunc_output", "g2.all_levels.tsv">>,
                      <<"diamond_output", "g2.diamond.out">>}
      [] OTHER    -> {}

\* the directories of a sample subtree of variant v placed at path p
VariantDirs(p, v) ==
    {p} \cup {p \o <<f[1]>> : f \in {g \in VariantFiles(v) : Len(g) = 2}}

\* A shape gives the variant of every sample directory ("absent" for none),
\* the variant of an unpartitioned root ("absent" for none) and whether a
\* regular file lies directly under the root.

\* no sample directory at all
NoSample == [s \in SampleIds |-> "absent"]

\* sample-partitioned roots
PartShapes ==
    {[top |-> f, flat |-> "absent", stray |-> FALSE] :
        f \in [SampleIds -> {"absent", "v1", "v2"}]}

\* unpartitioned roots
FlatShapes ==
    {[top |-> NoSample, flat |-> v, stray |-> FALSE] : v \in {"v1", "v2"}}

\* a root with a regular file beside its sample directory, and a root whose
\* sample directory is empty
OddShapes ==
    {[top |-> [NoSample EXCEPT ![SampleName[1]] = "v1"], flat |-> "absent", stray |-> TRUE],
     [top |-> [NoSample EXCEPT ![SampleName[1]] = "v0"], flat |-> "absent", stray |-> FALSE]}

Shapes == PartShapes \cup FlatShapes \cup OddShapes

TreeOf(sh, i) ==
    LET present == {s \in SampleIds : sh.top[s] # "absent"}
        sampleFiles == UNION {{<<s>> \o f : f \in VariantFiles(sh.top[s])} : s \in present}
        strayFiles == IF sh.stray THEN {<<"notes.txt">>} ELSE {}
        allFiles == VariantFiles(sh.flat) \cup sampleFiles \cup strayFiles
    IN  [dirs  |-> {<<>>}
                   \cup (IF sh.flat = "absent" THEN {} ELSE VariantDirs(<<>>, sh.flat))
                   \cup UNION {VariantDirs(<<s>>, sh.top[s]) : s \in present},
         files |-> [f \in allFiles |-> [input |-> i, name |-> Last(f)]]]

----------------------------------------------------------------------------
(* collate_gunc_results *)

NewResultsDirStale == [dirs |-> {<<>>, <<"gunc_output">>}, files |-> EmptyFiles]

\* output = GUNCResultsDirectoryFormat(): a fresh, empty directory
NewResultsDir == EmptyTree

CollateTargetRoot(sample_id) == <<>>

\* output.path / sample_id
CollateTarget(sample_id) == Join(<<>>, sample_id)

\* the keys of result.file_dict() of the input at index i (none past the end)
KeysOfInput(i) ==
    IF i <= Len(cInputs) THEN DOMAIN file_dict(cInputs[i]) ELSE {}

\* called with a sequence `results` of at most MaxInputs trees
CollateInit ==
    /\ \E n \in 0..MaxInputs : \E shs \in [1..n -> Shapes] :
            cInputs = [i \in 1..n |-> TreeOf(shs[i], i)]
    /\ cOut = NewResultsDir
    /\ cI = 1
    /\ cTodo = KeysOfInput(1)
    /\ cPc = "run"
    /\ FdIdle
    /\ CoerceIdle
    /\ VisIdle
    /\ TransformIdle
    /\ ValidateIdle
    /\ RunIdle

\* one iteration of the inner loop: copytree(sample_path, output.path / sample_id)
CollateCopy ==
    /\ cPc = "run"
    /\ cI <= Len(cInputs)
    /\ \E sample_id \in cTodo :
        LET result == cInputs[cI]
            sample_path == file_dict(result)[sample_id]
        IN  IF CopytreeFails(result, sample_path)
            THEN /\ cPc' = "error"
                 /\ UNCHANGED <<cOut, cTodo>>
            ELSE /\ cOut' = copytree(result, sample_path, cOut, CollateTarget(sample_id))
                 /\ cTodo' = cTodo \ {sample_id}
                 /\ UNCHANGED cPc
    /\ UNCHANGED <<cInputs, cI>>
    /\ UNCHANGED <<varsFd, varsCoerce, varsVis, varsTransform, varsValidate, varsRun>>

\* the inner loop is exhausted: the outer loop moves to the next input
CollateNextInput ==
    /\ cPc = "run"
    /\ cI <= Len(cInputs)
    /\ cTodo = {}
    /\ cI' = cI + 1
    /\ cTodo' = KeysOfInput(cI + 1)
    /\ UNCHANGED <<cInputs, cOut, cPc>>
    /\ UNCHANGED <<varsFd, varsCoerce, varsVis, varsTransform, varsValidate, varsRun>>

\* return output
CollateReturn ==
    /\ cPc = "run"
    /\ cI > Len(cInputs)
    /\ cPc' = "done"
    /\ UNCHANGED <<cInputs, cOut, cI, cTodo>>
    /\ UNCHANGED <<varsFd, varsCoerce, varsVis, varsTransform, varsValidate, varsRun>>

CollateNext == CollateCopy \/ CollateNextInput \/ CollateReturn

SpecCollate == CollateInit /\ [][CollateNext]_vars

----------------------------------------------------------------------------
(* File names.  A name is a string; DotParts gives name.split("."), and    *)
(* ScanRank the position of the name in a directory listing.               *)

DotParts(name) ==
    CASE name = "g1.all_levels.tsv"     -> <<"g1", "all_levels", "tsv">>
      [] name = "g2.all_levels.tsv"     -> <<"g2", "all_levels", "tsv">>
      [] name = "g1.diamond.out"        -> <<"g1", "diamond", "out">>
      [] name = "g1.diamond.gtdb_95.out" -> <<"g1", "diamond", "gtdb_95", "out">>
      [] name = "g2.diamond.out"        -> <<"g2", "diamond", "out">>
      [] name = "g1.viz.html"           -> <<"g1", "viz", "html">>
      [] name = "g2.viz.html"           -> <<"g2", "viz", "html">>
      [] name = "GUNC.maxCSS_level.tsv" -> <<"GUNC", "maxCSS_level", "tsv">>
      [] name = "notes.txt"             -> <<"notes", "txt">>
      [] OTHER                          -> <<name>>

\* f"{mag_id}.viz.html"
VizName(mag_id) ==
    CASE mag_id = "g1" -> "g1.viz.html"
      [] mag_id = "g2" -> "g2.viz.html"
      [] OTHER         -> "viz.html"

ScanRank(name) ==
    CASE name = "A" -> 1
      [] name = "B" -> 2
      [] name = "C" -> 3
      [] name = "D" -> 4
      [] name = "g1.all_levels.tsv" -> 5
      [] name = "g2.all_levels.tsv" -> 6
      [] name = "g1.diamond.out" -> 7
      [] name = "g1.diamond.gtdb_95.out" -> 8
      [] name = "g2.diamond.out" -> 9
      [] name = "notes.txt" -> 10
      [] OTHER -> 11

\* the rank of the entry a path names (the root itself comes first)
PathRank(p) == IF p = <<>> THEN 0 ELSE ScanRank(Last(p))

RECURSIVE InScanOrder(_)
\* the paths of S as the sequence a directory scan yields them in
InScanOrder(S) ==
    IF S = {} THEN <<>>
    ELSE LET first == CHOOSE x \in S : \A y \in S : PathRank(x) <= PathRank(y)
         IN  <<first>> \o InScanOrder(S \ {first})

\* fnmatch of the pattern "*.all_levels.tsv"
MatchesAllLevels(name) ==
    LET parts == DotParts(name)
    IN  /\ Len(parts) >= 3
        /\ SubSeq(parts, Len(parts) - 1, Len(parts)) = <<"all_levels", "tsv">>

----------------------------------------------------------------------------
(* pandas.read_csv and bool() on the pass.GUNC column *)

TrueValues == {"True", "TRUE", "true"}

FalseValues == {"False", "FALSE", "false"}

IntValues == {"0", "1"}

\* the dtype read_csv infers for a column from all of its cells
ColumnDtype(cells) ==
    IF \A i \in 1..Len(cells) : cells[i] \in IntValues THEN "int64"
    ELSE IF \A i \in 1..Len(cells) : cells[i] \in TrueValues \cup FalseValues THEN "bool"
    ELSE "object"

\* bool(row["pass.GUNC"]): a parsed boolean as it is, an integer when it is
\* not zero, a string when it is not empty
BoolOf(dtype, cell) ==
    CASE dtype = "bool"  -> cell \in TrueValues
      [] dtype = "int64" -> cell # "0"
      [] OTHER           -> cell # ""

\* the pass_gunc values of the rows of a file whose pass.GUNC column is cells
PassGunc(cells) == [i \in 1..Len(cells) |-> BoolOf(ColumnDtype(cells), cells[i])]

----------------------------------------------------------------------------
(* _process_sample: the summary records and the genome files of a sample   *)

\* GUNCResultsFormat.COLUMNS
COLUMNS ==
    {"genome", "n_genes_called", "n_genes_mapped", "n_contigs",
     "taxonomic_level", "proportion_genes_retained_in_major_clades",
     "genes_retained_index", "clade_separation_score",
     "contamination_portion", "n_effective_surplus_clades",
     "mean_hit_identity", "reference_representation_score", "pass.GUNC"}

\* the columns _process_sample reads from a row
UsedColumns ==
    {"genome", "taxonomic_level", "reference_representation_score",
     "contamination_portion", "pass.GUNC", "n_contigs", "n_genes_mapped",
     "clade_separation_score", "genes_retained_index"}

\* summary_files = list(Path(sample_path).glob("gunc_output/*.all_levels.tsv"))
SummaryFiles(t, sample_path) ==
    InScanOrder({f \in IterDir(t, sample_path \o <<"gunc_output">>) :
                    f \in DOMAIN t.files /\ MatchesAllLevels(Last(f))})

\* row[...] raises KeyError on the first row of a file that lacks a read column
FileRaises(tsv) == Len(tsv.rows) > 0 /\ ~(UsedColumns \subseteq tsv.columns)

\* the records appended for one file
FileRecords(sample_id, tsv) ==
    LET cells == [i \in 1..Len(tsv.rows) |-> tsv.rows[i].passGUNC]
    IN  [i \in 1..Len(tsv.rows) |->
            [sample_id |-> sample_id,
             mag_id |-> tsv.rows[i].genome,
             taxonomic_level |-> tsv.rows[i].taxonomic_level,
             pass_gunc |-> PassGunc(cells)[i]]]

RECURSIVE RecordsOf(_, _, _)
\* summary_data after the loop over the files fs
RecordsOf(t, sample_id, fs) ==
    IF fs = <<>> THEN <<>>
    ELSE FileRecords(sample_id, t.files[Head(fs)]) \o RecordsOf(t, sample_id, Tail(fs))

SummaryRaises(t, sample_path) ==
    \E i \in 1..Len(SummaryFiles(t, sample_path)) :
        FileRaises(t.files[SummaryFiles(t, sample_path)[i]])

DiamondFilesFromSummary(t, sample_path) == SummaryFiles(t, sample_path)

\* list(diamond_outputs.glob("*"))
DiamondFiles(t, sample_path) ==
    InScanOrder(IterDir(t, sample_path \o <<"diamond_output">>))

\* mag_id = result_file.name.split(".")[0]
MagId(result_file) == Head(DotParts(Last(result_file)))

PlotFpNoSuffix(sample_path, mag_id) == sample_path \o <<"plots", mag_id>>

\* plot_fp = plots / f"{mag_id}.viz.html"
PlotFp(sample_path, mag_id) == sample_path \o <<"plots", VizName(mag_id)>>

----------------------------------------------------------------------------
(* The pass.GUNC column of one summary file, as _process_sample reads it   *)

\* rows of a summary file
MaxRows == 2

\* texts a pass.GUNC cell may hold
PassTokens ==
    {"True", "TRUE", "true", "False", "false", "pass", "PASS", "fail",
     "1", "0", "yes", "no", "maybe"}

CoerceInit ==
    /\ \E n \in 1..MaxRows : pCells \in [1..n -> PassTokens]
    /\ pOut = <<>>
    /\ pPc = "read"
    /\ FdIdle
    /\ CollateIdle
    /\ VisIdle
    /\ TransformIdle
    /\ ValidateIdle
    /\ RunIdle

\* df = pd.read_csv(sf, sep="\t") and the loop over df.iterrows()
ReadPass ==
    /\ pPc = "read"
    /\ pOut' = PassGunc(pCells)
    /\ pPc' = "done"
    /\ UNCHANGED pCells
    /\ UNCHANGED <<varsFd, varsCollate, varsVis, varsTransform, varsValidate, varsRun>>

SpecCoerce == CoerceInit /\ [][ReadPass]_vars

----------------------------------------------------------------------------
(* Result directories visualize is called on.  A sample subtree has one of *)
(* the layouts below.                                                      *)

\* worker threads of the pool
MaxThreads == 2

LevelName == <<"kingdom", "phylum", "class", "order">>

\* a summary file of one genome, one row per pass.GUNC cell
TsvOf(genome, cells, columns) ==
    [columns |-> columns,
     rows |-> [i \in 1..Len(cells) |->
                  [genome |-> genome,
                   taxonomic_level |-> LevelName[i],
                   passGUNC |-> cells[i]]]]

\* l1: a stored plot exists; l2: no plots directory; l3: the summary file
\* lacks the pass.GUNC column; l4: the summary file lacks the
\* mean_hit_identity column; l5: the genome of the summary file has no file
\* in diamond_output, which holds two files whose names start with "g1.";
\* l6: two genomes in diamond_output, one with a stored plot and a summary
\* file, the other with neither
Layouts == {"l1", "l2", "l3", "l4", "l5", "l6"}

LayoutFiles(l) ==
    CASE l = "l1" ->
            (<<"gunc_output", "g1.all_levels.tsv">> :>
                 TsvOf("g1", [i \in 1..MaxRows |-> IF i = 1 THEN "True" ELSE "False"], COLUMNS))
            @@ (<<"diamond_output", "g1.diamond.gtdb_95.out">> :> "hits")
            @@ (<<"plots", "g1.viz.html">> :> "html")
      [] l = "l2" ->
            (<<"gunc_output", "g2.all_levels.tsv">> :> TsvOf("g2", <<"False">>, COLUMNS))
            @@ (<<"diamond_output", "g2.diamond.out">> :> "hits")
      [] l = "l3" ->
            (<<"gunc_output", "g1.all_levels.tsv">> :>
                 TsvOf("g1", <<"True">>, COLUMNS \ {"pass.GUNC"}))
            @@ (<<"diamond_output", "g1.diamond.out">> :> "hits")
      [] l = "l4" ->
            (<<"gunc_output", "g1.all_levels.tsv">> :>
                 TsvOf("g1", <<"True">>, COLUMNS \ {"mean_hit_identity"}))
            @@ (<<"diamond_output", "g1.diamond.out">> :> "hits")
      [] l = "l5" ->
            (<<"gunc_output", "g2.all_levels.tsv">> :> TsvOf("g2", <<"True">>, COLUMNS))
            @@ (<<"diamond_output", "g1.diamond.out">> :> "hits")
            @@ (<<"diamond_output", "g1.diamond.gtdb_95.out">> :> "hits")
      [] l = "l6" ->
            (<<"gunc_output", "g1.all_levels.tsv">> :> TsvOf("g1", <<"False">>, COLUMNS))
            @@ (<<"diamond_output", "g1.diamond.out">> :> "hits")
            @@ (<<"diamond_output", "g2.diamond.out">> :> "hits")
            @@ (<<"plots", "g1.viz.html">> :> "html")
      [] l = "l7" ->
            (<<"gunc_output", "g1.all_levels.tsv">> :> TsvOf("g1", <<>>, COLUMNS))
            @@ (<<"diamond_output", "g1.diamond.out">> :> "hits")
      [] l = "l8" ->
            (<<"gunc_output", "g2.all_levels.tsv">> :>
                 TsvOf("g2", <<"True">>, COLUMNS \ {"genome"}))
            @@ (<<"diamond_output", "g2.diamond.out">> :> "hits")
      [] l = "l9" ->
            (<<"diamond_output", "g1.diamond.out">> :> "hits")
      [] OTHER -> EmptyFiles

LayoutDirs(p, l) == {p} \cup {p \o <<f[1]>> : f \in DOMAIN LayoutFiles(l)}

VisPartShapes ==
    {[top |-> f, flat |-> "absent", stray |-> FALSE] :
        f \in [SampleIds -> Layouts \cup {"absent"}]}

VisFlatShapes ==
    {[top |-> NoSample, flat |-> l, stray |-> FALSE] : l \in {"l1", "l2"}}

VisOddShapes ==
    {[top |-> [NoSample EXCEPT ![SampleName[1]] = "l1"], flat |-> "absent", stray |-> TRUE]}

VisShapes == VisPartShapes \cup VisFlatShapes \cup VisOddShapes

VisTreeOf(sh) ==
    LET present == {s \in SampleIds : sh.top[s] # "absent"}
        located == {<<<<>>, sh.flat>>} \cup {<<<<s>>, sh.top[s]>> : s \in present}
        placed == UNION {{<<pl[1] \o f, LayoutFiles(pl[2])[f]>> : f \in DOMAIN LayoutFiles(pl[2])}
                            : pl \in located}
        strayFiles == IF sh.stray THEN {<<<<"notes.txt">>, "text">>} ELSE {}
        all == placed \cup strayFiles
    IN  [dirs  |-> {<<>>}
                   \cup (IF sh.flat = "absent" THEN {} ELSE LayoutDirs(<<>>, sh.flat))
                   \cup UNION {LayoutDirs(<<s>>, sh.top[s]) : s \in present},
         files |-> [f \in {x[1] : x \in all} |-> (CHOOSE x \in all : x[1] = f)[2]]]

\* the tree t with a regular file of the given content at path f
WriteFile(t, f, content) ==
    [dirs  |-> t.dirs \cup Prefixes(SubSeq(f, 1, Len(f) - 1)),
     files |-> [y \in DOMAIN t.files \cup {f} |-> IF y = f THEN content ELSE t.files[y]]]

----------------------------------------------------------------------------
(* visualize and its worker pool *)

\* a work item before it runs; acts lists the plot actions the task has
\* performed: the file of diamond_output, the action taken on it ("copy" of
\* the stored plot arg, or "plot" with -d arg), the directory given as the
\* target, and the paths written under output_dir
NoTask == [state |-> "new", todo |-> <<>>, mags |-> <<>>, summary |-> <<>>,
           acts |-> <<>>]

\* the items of results.file_dict(), in the order the dict holds them
FileDictItems(t) == InScanOrder({file_dict(t)[k] : k \in DOMAIN file_dict(t)})

\* the key of the item whose value is path
KeyOf(t, path) == CHOOSE k \in DOMAIN file_dict(t) : file_dict(t)[k] = path

\* the tasks a worker is busy with: in _process_sample itself ("running")
\* or inside subprocess.run for gunc plot ("plotting")
Running == {s \in DOMAIN vTask : vTask[s].state \in {"running", "plotting"}}

WorkerAlways == TRUE

WorkerNever == FALSE

\* ThreadPoolExecutor(max_workers=threads): a work item is taken only by a
\* worker that runs no other, and there are at most `threads` workers
WorkerIdle == Cardinality(Running) < vThreads

FinishedEarly(s) == vTask[s].state \in {"running", "done", "failed"}

\* the future of task s is FINISHED: the call returned or raised
Finished(s) == vTask[s].state \in {"done", "failed"}

ResultSwallowed(s) == FALSE

\* future.result() re-raises the exception of the call
ResultRaises(s) == vTask[s].state = "failed"

ReplaceSummary(summary_data, local_summary_data) == local_summary_data

\* summary_data.extend(local_summary_data)
ExtendSummary(summary_data, local_summary_data) == summary_data \o local_summary_data

PlotsPathShared(sample_id) == <<"plots">>

\* Path(output_dir) / "plots" / sample_id
PlotsPath(sample_id) == Join(<<"plots">>, sample_id)

VisInit ==
    /\ \E sh \in VisShapes : vResults = VisTreeOf(sh)
    /\ vThreads \in 1..MaxThreads
    /\ vPc = "submit"
    /\ vUnsub = [i \in 1..Len(FileDictItems(vResults)) |->
                    KeyOf(vResults, FileDictItems(vResults)[i])]
    /\ vQueue = <<>>
    /\ vTask = [s \in DOMAIN file_dict(vResults) |-> NoTask]
    /\ vCollected = {}
    /\ vSamples = EmptyFiles
    /\ vSummary = <<>>
    /\ vExc = <<>>
    /\ vOut = EmptyTree
    /\ vRendered = <<>>
    /\ FdIdle
    /\ CollateIdle
    /\ CoerceIdle
    /\ TransformIdle
    /\ ValidateIdle
    /\ RunIdle

\* executor.submit(_process_sample, sample_id, sample_path, output_dir)
Submit ==
    /\ vPc = "submit"
    /\ vUnsub # <<>>
    /\ vQueue' = Append(vQueue, Head(vUnsub))
    /\ vTask' = [vTask EXCEPT ![Head(vUnsub)].state = "pending"]
    /\ vUnsub' = Tail(vUnsub)
    /\ UNCHANGED <<vResults, vThreads, vPc, vCollected, vSamples, vSummary,
                   vExc, vOut, vRendered>>
    /\ UNCHANGED <<varsFd, varsCollate, varsCoerce, varsTransform, varsValidate, varsRun>>

\* the dict of futures is complete: the loop over as_completed(futures) starts
StartCollect ==
    /\ vPc = "submit"
    /\ vUnsub = <<>>
    /\ vPc' = "collect"
    /\ UNCHANGED <<vResults, vThreads, vUnsub, vQueue, vTask, vCollected,
                   vSamples, vSummary, vExc, vOut, vRendered>>
    /\ UNCHANGED <<varsFd, varsCollate, varsCoerce, varsTransform, varsValidate, varsRun>>

\* a free worker takes the oldest work item and runs _process_sample up to
\* the end of the loop over the summary files
TaskStart(s) ==
    /\ vQueue # <<>>
    /\ s = Head(vQueue)
    /\ WorkerIdle
    /\ vQueue' = Tail(vQueue)
    /\ LET sample_path == file_dict(vResults)[s]
       IN  IF SummaryRaises(vResults, sample_path)
           THEN vTask' = [vTask EXCEPT ![s] = [NoTask EXCEPT !.state = "failed"]]
           ELSE vTask' = [vTask EXCEPT ![s] =
                    [state |-> "running",
                     todo |-> DiamondFiles(vResults, sample_path),
                     mags |-> <<>>,
                     summary |-> RecordsOf(vResults, s, SummaryFiles(vResults, sample_path)),
                     acts |-> <<>>]]
    /\ UNCHANGED <<vResults, vThreads, vPc, vUnsub, vCollected, vSamples,
                   vSummary, vExc, vOut, vRendered>>
    /\ UNCHANGED <<varsFd, varsCollate, varsCoerce, varsTransform, varsValidate, varsRun>>

PlotsBaseInput == "results"

\* Path(output_dir): the directory dest and plots_path are built from
PlotsBase == "output_dir"

\* a regular file of the given content is written at f below PlotsBase
PlotWrite(f, content) ==
    IF PlotsBase = "output_dir"
    THEN vOut' = WriteFile(vOut, f, content) /\ UNCHANGED vResults
    ELSE vResults' = WriteFile(vResults, f, content) /\ UNCHANGED vOut

\* os.makedirs(d, exist_ok=True) below PlotsBase
PlotMakedirs(d) ==
    IF PlotsBase = "output_dir"
    THEN vOut' = [vOut EXCEPT !.dirs = @ \cup Prefixes(d)] /\ UNCHANGED vResults
    ELSE vResults' = [vResults EXCEPT !.dirs = @ \cup Prefixes(d)] /\ UNCHANGED vOut

\* the record of one plot action of the task of s
PlotAct(s, result_file, kind, arg, wrote) ==
    [file |-> result_file, kind |-> kind, arg |-> arg, base |-> PlotsBase,
     dir |-> PlotsPath(s), wrote |-> wrote]

\* one iteration of the loop over diamond_output up to the end of the copy
\* of the stored plot, or up to the start of the gunc plot process
TaskPlot(s) ==
    /\ vTask[s].state = "running"
    /\ vTask[s].todo # <<>>
    /\ LET result_file == Head(vTask[s].todo)
           mag_id == MagId(result_file)
           plot_fp == PlotFp(file_dict(vResults)[s], mag_id)
           copied == PlotsPath(s) \o <<Last(plot_fp)>>
       IN  IF Exists(vResults, plot_fp)
           THEN /\ PlotWrite(copied, vResults.files[plot_fp])
                /\ vTask' = [vTask EXCEPT ![s] =
                       [@ EXCEPT !.todo = Tail(@), !.mags = Append(@, mag_id),
                                 !.acts = Append(@, PlotAct(s, result_file, "copy",
                                                            plot_fp, {copied}))]]
           ELSE /\ PlotMakedirs(PlotsPath(s))
                /\ vTask' = [vTask EXCEPT ![s] =
                       [@ EXCEPT !.state = "plotting", !.mags = Append(@, mag_id)]]
    /\ UNCHANGED <<vThreads, vPc, vUnsub, vQueue, vCollected,
                   vSamples, vSummary, vExc, vRendered>>
    /\ UNCHANGED <<varsFd, varsCollate, varsCoerce, varsTransform, varsValidate, varsRun>>

\* the gunc plot process of task s ends: with exit code 0 after writing the
\* plot, or with another code, which subprocess.run(check=True) raises
PlotExit(s) ==
    /\ vTask[s].state = "plotting"
    /\ LET result_file == Head(vTask[s].todo)
           plotted == PlotsPath(s) \o <<VizName(MagId(result_file))>>
       IN  \/ /\ PlotWrite(plotted, "plot")
              /\ vTask' = [vTask EXCEPT ![s] =
                     [@ EXCEPT !.state = "running", !.todo = Tail(@),
                               !.acts = Append(@, PlotAct(s, result_file, "plot",
                                                          result_file, {plotted}))]]
           \/ /\ UNCHANGED <<vOut, vResults>>
              /\ vTask' = [vTask EXCEPT ![s] =
                     [NoTask EXCEPT !.state = "failed",
                                    !.acts = Append(vTask[s].acts,
                                                    PlotAct(s, result_file, "plot",
                                                            result_file, {}))]]
    /\ UNCHANGED <<vThreads, vPc, vUnsub, vQueue, vCollected,
                   vSamples, vSummary, vExc, vRendered>>
    /\ UNCHANGED <<varsFd, varsCollate, varsCoerce, varsTransform, varsValidate, varsRun>>

\* return sample_id, sample_mags, summary_data
TaskReturn(s) ==
    /\ vTask[s].state = "running"
    /\ vTask[s].todo = <<>>
    /\ vTask' = [vTask EXCEPT ![s].state = "done"]
    /\ UNCHANGED <<vResults, vThreads, vPc, vUnsub, vQueue, vCollected,
                   vSamples, vSummary, vExc, vOut, vRendered>>
    /\ UNCHANGED <<varsFd, varsCollate, varsCoerce, varsTransform, varsValidate, varsRun>>

\* as_completed yields a finished future; future.result() gives the triple
\* or raises, which leaves the loop
Collect(s) ==
    /\ vPc = "collect"
    /\ s \notin vCollected
    /\ Finished(s)
    /\ vCollected' = vCollected \cup {s}
    /\ IF ResultRaises(s)
       THEN /\ vExc' = <<s>>
            /\ vPc' = "exit"
            /\ UNCHANGED <<vSamples, vSummary>>
       ELSE /\ vSamples' = [k \in DOMAIN vSamples \cup {s} |->
                               IF k = s THEN vTask[s].mags ELSE vSamples[k]]
            /\ vSummary' = ExtendSummary(vSummary, vTask[s].summary)
            /\ UNCHANGED <<vExc, vPc>>
    /\ UNCHANGED <<vResults, vThreads, vUnsub, vQueue, vTask, vOut, vRendered>>
    /\ UNCHANGED <<varsFd, varsCollate, varsCoerce, varsTransform, varsValidate, varsRun>>

\* as_completed is exhausted
CollectDone ==
    /\ vPc = "collect"
    /\ vCollected = DOMAIN vTask
    /\ vPc' = "exit"
    /\ UNCHANGED <<vResults, vThreads, vUnsub, vQueue, vTask, vCollected,
                   vSamples, vSummary, vExc, vOut, vRendered>>
    /\ UNCHANGED <<varsFd, varsCollate, varsCoerce, varsTransform, varsValidate, varsRun>>

\* the with block is left: shutdown(wait=True) returns when every work item
\* has run; a propagating exception then reaches the caller of visualize
ExecutorExit ==
    /\ vPc = "exit"
    /\ \A s \in DOMAIN vTask : Finished(s)
    /\ vPc' = IF vExc = <<>> THEN "assets" ELSE "raised"
    /\ UNCHANGED <<vResults, vThreads, vUnsub, vQueue, vTask, vCollected,
                   vSamples, vSummary, vExc, vOut, vRendered>>
    /\ UNCHANGED <<varsFd, varsCollate, varsCoerce, varsTransform, varsValidate, varsRun>>

\* shutil.copytree(TEMPLATES / d, os.path.join(output_dir, d)) for js and css
CopyAssets ==
    /\ vPc = "assets"
    /\ vOut' = [vOut EXCEPT !.dirs = @ \cup {<<"js">>, <<"css">>}]
    /\ vPc' = "render"
    /\ UNCHANGED <<vResults, vThreads, vUnsub, vQueue, vTask, vCollected,
                   vSamples, vSummary, vExc, vRendered>>
    /\ UNCHANGED <<varsFd, varsCollate, varsCoerce, varsTransform, varsValidate, varsRun>>

\* q2templates.render(templates, output_dir, context=context), then the
\* removal of bootstrap.min.css and the rewrite of normalize.css
Render ==
    /\ vPc = "render"
    /\ vRendered' = <<[samples |-> vSamples, summary_data |-> vSummary]>>
    /\ vOut' = WriteFile(WriteFile(vOut, <<"index.html">>, "report"),
                         <<"q2templateassets", "css", "normalize.css">>, "css")
    /\ vPc' = "done"
    /\ UNCHANGED <<vResults, vThreads, vUnsub, vQueue, vTask, vCollected,
                   vSamples, vSummary, vExc>>
    /\ UNCHANGED <<varsFd, varsCollate, varsCoerce, varsTransform, varsValidate, varsRun>>

VisNext ==
    \/ Submit
    \/ StartCollect
    \/ \E s \in DOMAIN vTask : TaskStart(s)
    \/ \E s \in DOMAIN vTask : TaskPlot(s)
    \/ \E s \in DOMAIN vTask : PlotExit(s)
    \/ \E s \in DOMAIN vTask : TaskReturn(s)
    \/ \E s \in DOMAIN vTask : Collect(s)
    \/ CollectDone
    \/ ExecutorExit
    \/ CopyAssets
    \/ Render

SpecVis == VisInit /\ [][VisNext]_vars

\* visualize with threads that keep being scheduled and gunc plot processes
\* that end: a step that is possible is eventually taken
SpecVisFair == SpecVis /\ WF_vars(VisNext)

----------------------------------------------------------------------------
(* The transformers of GUNCResultsDirectoryFormat: _read_single_result and *)
(* _read_dataframes.  A frame is a record [columns, rows]; a row keeps its *)
(* index label id, the cells the claims are about, the dtype pandas gave   *)
(* the pass.GUNC column of its file, and sample_id as <<>> (no value) or   *)
(* <<s>>.                                                                  *)

\* l7: the summary file has a header and no data row; l8: the summary file
\* lacks the genome column; l9: the sample has no gunc_output directory
TransformLayouts == Layouts \cup {"l7", "l8", "l9"}

TransformShapes ==
    {[top |-> f, flat |-> "absent", stray |-> FALSE] :
        f \in [SampleIds -> TransformLayouts \cup {"absent"}]}
    \cup {[top |-> NoSample, flat |-> l, stray |-> FALSE] : l \in TransformLayouts}
    \cup {[top |-> [NoSample EXCEPT ![SampleName[1]] = l], flat |-> "absent",
           stray |-> TRUE] : l \in {"l1", "absent"}}

\* glob.glob(f"{sample_fp}/gunc_output/*.all_levels.tsv")
GlobAllLevels(t, sample_fp) ==
    InScanOrder({f \in IterDir(t, sample_fp \o <<"gunc_output">>) :
                    MatchesAllLevels(Last(f))})

RECURSIVE ReadOrder(_, _)
\* the (sample_id, mag_fp) pairs of the two nested loops, in order, for the
\* items fps of file_dict()
ReadOrder(t, fps) ==
    IF fps = <<>> THEN <<>>
    ELSE LET found == GlobAllLevels(t, Head(fps))
         IN  [i \in 1..Len(found) |-> <<KeyOf(t, Head(fps)), found[i]>>]
             \o ReadOrder(t, Tail(fps))

\* df["genome"] raises KeyError when the file has no such column
SingleResultRaises(tsv) == "genome" \notin tsv.columns

\* _read_single_result: the frame of one file, indexed by f"{genome}_{i}"
ReadSingleResult(tsv) ==
    [columns |-> tsv.columns,
     rows |-> [i \in 1..Len(tsv.rows) |->
                  [id |-> <<tsv.rows[i].genome, i - 1>>,
                   genome |-> tsv.rows[i].genome,
                   taxonomic_level |-> tsv.rows[i].taxonomic_level,
                   passGUNC |-> tsv.rows[i].passGUNC,
                   dtype |-> ColumnDtype([j \in 1..Len(tsv.rows) |-> tsv.rows[j].passGUNC]),
                   sample_id |-> <<>>]]]

WithSampleIdAlways(df, sample_id) ==
    [columns |-> df.columns \cup {"sample_id"},
     rows |-> [i \in 1..Len(df.rows) |-> [df.rows[i] EXCEPT !.sample_id = <<sample_id>>]]]

\* if sample_id: df["sample_id"] = sample_id
WithSampleId(df, sample_id) ==
    IF sample_id # ""
    THEN [columns |-> df.columns \cup {"sample_id"},
          rows |-> [i \in 1..Len(df.rows) |->
                       [df.rows[i] EXCEPT !.sample_id = <<sample_id>>]]]
    ELSE df

NoRowsAtAll(dataframes) == \A i \in 1..Len(dataframes) : dataframes[i].rows = <<>>

\* not dataframes
NoDataframes(dataframes) == dataframes = <<>>

RECURSIVE ConcatRows(_)
ConcatRows(dataframes) ==
    IF dataframes = <<>> THEN <<>>
    ELSE Head(dataframes).rows \o ConcatRows(Tail(dataframes))

\* pd.concat(dataframes): the union of the columns, the rows one frame after
\* the other
Concat(dataframes) ==
    [columns |-> UNION {dataframes[i].columns : i \in 1..Len(dataframes)},
     rows |-> ConcatRows(dataframes)]

\* str() of a pass.GUNC value
StrOf(dtype, cell) ==
    CASE dtype = "bool" -> IF cell \in TrueValues THEN "True" ELSE "False"
      [] OTHER          -> cell

\* combined_df["pass.GUNC"].astype(str) raises KeyError without the column
AstypeRaises(df) == "pass.GUNC" \notin df.columns

\* combined_df["pass.GUNC"] = combined_df["pass.GUNC"].astype(str)
AstypeStr(df) ==
    [columns |-> df.columns,
     rows |-> [i \in 1..Len(df.rows) |->
                  [df.rows[i] EXCEPT !.passGUNC = StrOf(df.rows[i].dtype, @),
                                     !.dtype = "object"]]]

NoResultsMessage == "No GUNC results found in the directory format"

TransformInit ==
    /\ \E sh \in TransformShapes : tResults = VisTreeOf(sh)
    /\ tTodo = ReadOrder(tResults, FileDictItems(tResults))
    /\ tFrames = <<>>
    /\ tOut = <<>>
    /\ tErr = ""
    /\ tPc = "read"
    /\ FdIdle
    /\ CollateIdle
    /\ CoerceIdle
    /\ VisIdle
    /\ ValidateIdle
    /\ RunIdle

\* one iteration of the inner loop: the file is read, gets its sample_id
\* column and is appended, or _read_single_result raises
ReadNextResult ==
    /\ tPc = "read"
    /\ tTodo # <<>>
    /\ LET sample_id == Head(tTodo)[1]
           tsv == tResults.files[Head(tTodo)[2]]
       IN  IF SingleResultRaises(tsv)
           THEN /\ tErr' = "KeyError: 'genome'"
                /\ tPc' = "raised"
                /\ UNCHANGED <<tTodo, tFrames>>
           ELSE /\ tFrames' = Append(tFrames, WithSampleId(ReadSingleResult(tsv), sample_id))
                /\ tTodo' = Tail(tTodo)
                /\ UNCHANGED <<tErr, tPc>>
    /\ UNCHANGED <<tResults, tOut>>
    /\ UNCHANGED <<varsFd, varsCollate, varsCoerce, varsVis, varsValidate, varsRun>>

\* the loops are over: ValueError without frames, else the frames are
\* concatenated and pass.GUNC is turned into text
CombineResults ==
    /\ tPc = "read"
    /\ tTodo = <<>>
    /\ IF NoDataframes(tFrames)
       THEN /\ tErr' = NoResultsMessage
            /\ tPc' = "raised"
            /\ UNCHANGED tOut
       ELSE IF AstypeRaises(Concat(tFrames))
       THEN /\ tErr' = "KeyError: 'pass.GUNC'"
            /\ tPc' = "raised"
            /\ UNCHANGED tOut
       ELSE /\ tOut' = <<AstypeStr(Concat(tFrames))>>
            /\ tPc' = "returned"
            /\ UNCHANGED tErr
    /\ UNCHANGED <<tResults, tTodo, tFrames>>
    /\ UNCHANGED <<varsFd, varsCollate, varsCoerce, varsVis, varsValidate, varsRun>>

TransformNext == ReadNextResult \/ CombineResults

SpecTransform == TransformInit /\ [][TransformNext]_vars

----------------------------------------------------------------------------
(* GUNCResultsFormat._validate_ on a file with a given header line         *)

\* expected columns a header may lack
MaxMissing == 1

\* GUNCResultsFormat.COLUMNS, in the order of the list
ColumnList ==
    <<"genome", "n_genes_called", "n_genes_mapped", "n_contigs",
      "taxonomic_level", "proportion_genes_retained_in_major_clades",
      "genes_retained_index", "clade_separation_score",
      "contamination_portion", "n_effective_surplus_clades",
      "mean_hit_identity", "reference_representation_score", "pass.GUNC">>

Reverse(seq) == [i \in 1..Len(seq) |-> seq[Len(seq) + 1 - i]]

\* columns a header may hold after the expected ones: none, a column of
\* another name, or a second column of an expected name
Extras == {<<>>, <<"extra">>, <<"genome">>, <<"pass.GUNC">>}

\* the header with the columns of base but the missing ones, then extra
HeaderOf(base, missing, extra) ==
    LET Kept(c) == c \notin missing
    IN  SelectSeq(base, Kept) \o extra

\* the name read_csv gives the second column of a name
Mangled(name) ==
    CASE name = "genome" -> "genome.1"
      [] name = "n_genes_called" -> "n_genes_called.1"
      [] name = "n_genes_mapped" -> "n_genes_mapped.1"
      [] name = "n_contigs" -> "n_contigs.1"
      [] name = "taxonomic_level" -> "taxonomic_level.1"
      [] name = "proportion_genes_retained_in_major_clades" ->
             "proportion_genes_retained_in_major_clades.1"
      [] name = "genes_retained_index" -> "genes_retained_index.1"
      [] name = "clade_separation_score" -> "clade_separation_score.1"
      [] name = "contamination_portion" -> "contamination_portion.1"
      [] name = "n_effective_surplus_clades" -> "n_effective_surplus_clades.1"
      [] name = "mean_hit_identity" -> "mean_hit_identity.1"
      [] name = "reference_representation_score" -> "reference_representation_score.1"
      [] name = "pass.GUNC" -> "pass.GUNC.1"
      [] OTHER -> "extra.1"

\* df.columns of pd.read_csv(str(self), sep="\t"): a name that occurred
\* before in the header is mangled
DfColumns(header) ==
    [i \in 1..Len(header) |->
        IF \E j \in 1..(i - 1) : header[j] = header[i]
        THEN Mangled(header[i])
        ELSE header[i]]

SetOf(seq) == {seq[i] : i \in 1..Len(seq)}

ColumnsSubset(columns) == SetOf(ColumnList) \subseteq SetOf(columns)

\* set(self.COLUMNS) == set(df.columns)
ColumnsMatch(columns) == SetOf(ColumnList) = SetOf(columns)

ValidateInit ==
    /\ \E base \in {ColumnList, Reverse(ColumnList)} :
       \E n \in 0..MaxMissing :
       \E missing \in {m \in SUBSET SetOf(ColumnList) : Cardinality(m) = n} :
       \E extra \in Extras :
           gHeader = HeaderOf(base, missing, extra)
    /\ gErr = ""
    /\ gPc = "validate"
    /\ FdIdle
    /\ CollateIdle
    /\ CoerceIdle
    /\ VisIdle
    /\ TransformIdle
    /\ RunIdle

\* _validate_(level)
Validate ==
    /\ gPc = "validate"
    /\ IF ColumnsMatch(DfColumns(gHeader))
       THEN /\ gPc' = "valid"
            /\ UNCHANGED gErr
       ELSE /\ gPc' = "raised"
            /\ gErr' = "GUNC results file does not contain expected columns."
    /\ UNCHANGED gHeader
    /\ UNCHANGED <<varsFd, varsCollate, varsCoerce, varsVis, varsTransform, varsRun>>

SpecValidate == ValidateInit /\ [][Validate]_vars

----------------------------------------------------------------------------
(* _run_gunc and run_command.  A command is the sequence of its argument   *)
(* strings.                                                                *)

\* min_mapped_genes: int = 11
MinMappedGenesDefault == 11

\* glob.glob(f"{db.path}/*.dmnd")[0]
DbFp == "/db/gunc_db.dmnd"

\* str(mags.path / sample_id), str(mags.path) for ""
MagsPathStr(sample_id) ==
    CASE sample_id = "A" -> "/mags/A"
      [] sample_id = "B" -> "/mags/B"
      [] sample_id = "C" -> "/mags/C"
      [] sample_id = "D" -> "/mags/D"
      [] OTHER           -> "/mags"

\* str(results.path / sample_id), str(results.path) for ""
ResultsPathStr(sample_id) ==
    CASE sample_id = "A" -> "/results/A"
      [] sample_id = "B" -> "/results/B"
      [] sample_id = "C" -> "/results/C"
      [] sample_id = "D" -> "/results/D"
      [] OTHER           -> "/results"

\* base_cmd before the branch on the type of mags
BaseCmd(args) ==
    <<"gunc", "run", "--db_file", DbFp, "--threads", ToString(args.threads),
      "--file_suffix", ".fasta", "--detailed_output",
      "--min_mapped_genes", ToString(args.min_mapped_genes)>>
    \o (IF args.sensitive THEN <<"--sensitive">> ELSE <<>>)
    \o (IF args.use_species_level THEN <<"--use_species_level">> ELSE <<>>)

\* cmd.extend(["--input_dir", ..., "--out_dir", ...])
ExtendDirs(cmd, sample_id) ==
    cmd \o <<"--input_dir", MagsPathStr(sample_id),
             "--out_dir", ResultsPathStr(sample_id)>>

BaseAliased(base_cmd, cmd) == cmd

\* cmd = deepcopy(base_cmd): extending cmd leaves base_cmd as it was
BaseAfterCopy(base_cmd, cmd) == base_cmd

PcIgnoringExit(code) == "run"

\* subprocess.run(cmd, check=True) raises CalledProcessError on a non-zero
\* exit, and nothing in _run_gunc catches it
PcAfterExit(code) == IF code = 0 THEN "run" ELSE "raised"

\* mags.sample_dict(), as the sequence of the sample ids of the set S
SampleSeq(S) == InScanOrder({<<x>> : x \in S})

RunInit ==
    /\ rMulti \in BOOLEAN
    /\ \E threads \in 1..MaxThreads :
       \E sensitive \in BOOLEAN :
       \E use_species_level \in BOOLEAN :
       \E min_mapped_genes \in {MinMappedGenesDefault, 0} :
           rArgs = [threads |-> threads, sensitive |-> sensitive,
                    use_species_level |-> use_species_level,
                    min_mapped_genes |-> min_mapped_genes]
    /\ rBase = BaseCmd(rArgs)
    /\ IF rMulti
       THEN \E S \in SUBSET SampleIds :
                rSamples = [i \in 1..Cardinality(S) |-> SampleSeq(S)[i][1]]
       ELSE rSamples = <<>>
    /\ rTodo = IF rMulti THEN rSamples ELSE <<"">>
    /\ rCalls = <<>>
    /\ rDirs = {}
    /\ rPc = "run"
    /\ FdIdle
    /\ CollateIdle
    /\ CoerceIdle
    /\ VisIdle
    /\ TransformIdle
    /\ ValidateIdle

\* one iteration of the loop over mags.sample_dict(); the gunc run process
\* exits with 0 or with another code
RunSample ==
    /\ rPc = "run"
    /\ rMulti
    /\ rTodo # <<>>
    /\ \E code \in {0, 1} :
           LET sample_id == Head(rTodo)
               cmd == ExtendDirs(rBase, sample_id)
           IN  /\ rDirs' = rDirs \cup {<<sample_id>>}
               /\ rBase' = BaseAfterCopy(rBase, cmd)
               /\ rCalls' = Append(rCalls, [cmd |-> cmd, code |-> code])
               /\ rPc' = PcAfterExit(code)
               /\ rTodo' = IF PcAfterExit(code) = "run" THEN Tail(rTodo) ELSE rTodo
    /\ UNCHANGED <<rMulti, rSamples, rArgs>>
    /\ UNCHANGED <<varsFd, varsCollate, varsCoerce, varsVis, varsTransform, varsValidate>>

\* the else branch: base_cmd itself is extended with the roots and run
RunCollection ==
    /\ rPc = "run"
    /\ ~rMulti
    /\ rTodo # <<>>
    /\ \E code \in {0, 1} :
           /\ rBase' = ExtendDirs(rBase, "")
           /\ rCalls' = Append(rCalls, [cmd |-> ExtendDirs(rBase, ""), code |-> code])
           /\ rPc' = PcAfterExit(code)
           /\ rTodo' = IF PcAfterExit(code) = "run" THEN Tail(rTodo) ELSE rTodo
    /\ UNCHANGED <<rMulti, rSamples, rArgs, rDirs>>
    /\ UNCHANGED <<varsFd, varsCollate, varsCoerce, varsVis, varsTransform, varsValidate>>

\* return results
RunReturn ==
    /\ rPc = "run"
    /\ rTodo = <<>>
    /\ rPc' = "returned"
    /\ UNCHANGED <<rMulti, rSamples, rArgs, rBase, rTodo, rCalls, rDirs>>
    /\ UNCHANGED <<varsFd, varsCollate, varsCoerce, varsVis, varsTransform, varsValidate>>

RunNext == RunSample \/ RunCollection \/ RunReturn

SpecRun == RunInit /\ [][RunNext]_vars

----------------------------------------------------------------------------
(* The consumers of result directories: a run of visualize or a run of     *)
(* collate_gunc_results                                                    *)

ConsumersInit == VisInit \/ CollateInit

ConsumersNext == VisNext \/ CollateNext

SpecConsumers == ConsumersInit /\ [][ConsumersNext]_vars

----------------------------------------------------------------------------
(* Claims about file_dict *)

\* the names of the directories directly under the root of t
SubdirNames(t) == {Last(q) : q \in {d \in t.dirs : Len(d) = 1}}

\* C1: a root with a directory gunc_output directly under it is enumerated
\* as exactly {"": root}, whatever else the root holds.
C1_UnpartitionedIsSingleEntry ==
    (fdPc = "returned" /\ <<"gunc_output">> \in fdRoot.dirs)
        => (DOMAIN fdResult = {""} /\ fdResult[""] = <<>>)

C1_Witness ==
    /\ fdPc = "returned"
    /\ <<"gunc_output">> \in fdRoot.dirs
    /\ <<"notes.txt">> \in DOMAIN fdRoot.files
    /\ \E s \in SampleIds : <<s, "gunc_output">> \in fdRoot.dirs
    /\ DOMAIN fdResult = {""}

\* C2: a root without a directory gunc_output is enumerated as exactly its
\* sample subdirectories, each mapped to root/<name>.
C2_KeysAreSampleSubdirs ==
    (fdPc = "returned" /\ <<"gunc_output">> \notin fdRoot.dirs)
        => /\ DOMAIN fdResult = SubdirNames(fdRoot)
           /\ \A k \in DOMAIN fdResult : fdResult[k] = <<k>>

\* C3: a root with neither a directory gunc_output nor any subdirectory is
\* enumerated as the empty mapping, also when it holds plain files.
C3_NoSubdirsIsEmpty ==
    (fdPc = "returned" /\ fdRoot.dirs = {<<>>})
        => DOMAIN fdResult = {}

----------------------------------------------------------------------------
(* Claims about collate_gunc_results *)

\* t is keyed by sample: no directory gunc_output and no regular file
\* directly under its root
SamplePartitioned(t) ==
    /\ <<"gunc_output">> \notin t.dirs
    /\ \A f \in DOMAIN t.files : Len(f) > 1

\* the regular files of t below the directory p, as paths relative to p
RelFiles(t, p) == {Below(p, f) : f \in {g \in DOMAIN t.files : IsPrefix(p, g)}}

\* C4: two sample-partitioned inputs with disjoint sample sets are merged
\* without error into an output enumerated as the union of the sample sets,
\* holding every input file at output/<sample>/<same relative path>.
C4_DisjointUnion ==
    (/\ Len(cInputs) = 2
     /\ SamplePartitioned(cInputs[1]) /\ SamplePartitioned(cInputs[2])
     /\ SubdirNames(cInputs[1]) \cap SubdirNames(cInputs[2]) = {})
        => /\ cPc # "error"
           /\ cPc = "done" =>
                /\ DOMAIN file_dict(cOut)
                      = SubdirNames(cInputs[1]) \cup SubdirNames(cInputs[2])
                /\ \A k \in DOMAIN file_dict(cOut) : file_dict(cOut)[k] = <<k>>
                /\ \A i \in 1..2 : \A s \in SubdirNames(cInputs[i]) :
                     \A rel \in RelFiles(cInputs[i], <<s>>) :
                        /\ <<s>> \o rel \in DOMAIN cOut.files
                        /\ cOut.files[<<s>> \o rel] = cInputs[i].files[<<s>> \o rel]

C4_Witness ==
    /\ cPc = "done"
    /\ Len(cInputs) = 2
    /\ SamplePartitioned(cInputs[1]) /\ SamplePartitioned(cInputs[2])
    /\ SubdirNames(cInputs[1]) = {SampleName[1]}
    /\ SubdirNames(cInputs[2]) = {SampleName[2]}
    /\ RelFiles(cInputs[1], <<SampleName[1]>>) # {}
    /\ RelFiles(cInputs[2], <<SampleName[2]>>) # {}
    /\ DOMAIN file_dict(cOut) = {SampleName[1], SampleName[2]}

\* the inputs whose file_dict() has the key s
Providers(s) == {i \in 1..Len(cInputs) : s \in DOMAIN file_dict(cInputs[i])}

\* the inputs that hold a regular file at the relative path rel of sample s
FileProviders(s, rel) ==
    {i \in Providers(s) : file_dict(cInputs[i])[s] \o rel \in DOMAIN cInputs[i].files}

\* every keyed entry of every input is a directory
AllCopyable ==
    \A i \in 1..Len(cInputs) : \A s \in DOMAIN file_dict(cInputs[i]) :
        file_dict(cInputs[i])[s] \in cInputs[i].dirs

MaxOf(S) == CHOOSE i \in S : \A j \in S : j <= i

AllKeys == UNION {DOMAIN file_dict(cInputs[i]) : i \in 1..Len(cInputs)}

\* C5: a sample provided by several inputs does not make collation fail; the
\* output has the one subtree output/<sample>, where every relative path
\* holds the content of the latest input that provides it.
C5_LastWriterWins ==
    \A s \in AllKeys :
        Cardinality(Providers(s)) >= 2 =>
            /\ AllCopyable => cPc # "error"
            /\ cPc = "done" =>
                /\ Join(<<>>, s) \in cOut.dirs
                /\ \A i \in Providers(s) :
                     \A rel \in RelFiles(cInputs[i], file_dict(cInputs[i])[s]) :
                        LET last == MaxOf(FileProviders(s, rel))
                        IN  /\ Join(<<>>, s) \o rel \in DOMAIN cOut.files
                            /\ cOut.files[Join(<<>>, s) \o rel]
                                 = cInputs[last].files[file_dict(cInputs[last])[s] \o rel]

C5_Witness ==
    /\ cPc = "done"
    /\ Len(cInputs) = 2
    /\ Providers(SampleName[1]) = {1, 2}
    /\ FileProviders(SampleName[1], <<"gunc_output", "g1.all_levels.tsv">>) = {1, 2}
    /\ FileProviders(SampleName[1], <<"diamond_output", "g1.diamond.out">>) = {1}
    /\ cOut.files[<<SampleName[1], "gunc_output", "g1.all_levels.tsv">>].input = 2
    /\ cOut.files[<<SampleName[1], "diamond_output", "g1.diamond.out">>].input = 1

\* C6: an empty input sequence gives an empty output directory and no error.
C6_EmptyInput ==
    cInputs = <<>> =>
        /\ cPc # "error"
        /\ cPc = "done" => (cOut.dirs = {<<>>} /\ DOMAIN cOut.files = {})

C6_Witness ==
    /\ cInputs = <<>>
    /\ cPc = "done"
    /\ cI = 1

----------------------------------------------------------------------------
(* Claims about the pass_gunc field *)

\* str.lower() on the texts of PassTokens
Lower(text) ==
    CASE text \in {"True", "TRUE"}   -> "true"
      [] text \in {"False", "FALSE"} -> "false"
      [] text = "PASS"               -> "pass"
      [] OTHER                       -> text

\* C10: the pass_gunc field of a record is true exactly when the text of
\* its pass.GUNC cell is, ignoring case, one of true, pass, 1, yes.
C10_PermissiveCoercion ==
    pPc = "done" =>
        \A i \in 1..Len(pCells) :
            pOut[i] = (Lower(pCells[i]) \in {"true", "pass", "1", "yes"})

----------------------------------------------------------------------------
(* Claims about visualize *)

\* the sample ids results.file_dict() enumerates
VisKeys == DOMAIN file_dict(vResults)

\* the genome list _process_sample returns for sample s
MagsOf(s) ==
    LET fs == DiamondFiles(vResults, file_dict(vResults)[s])
    IN  [i \in 1..Len(fs) |-> MagId(fs[i])]

\* the record list _process_sample returns for sample s
SummaryOf(s) ==
    RecordsOf(vResults, s, SummaryFiles(vResults, file_dict(vResults)[s]))

\* the orders in which the tasks of the samples S may be collected
Orders(S) ==
    {q \in [1..Cardinality(S) -> S] :
        \A i, j \in 1..Cardinality(S) : q[i] = q[j] => i = j}

RECURSIVE ConcatSummaries(_)
ConcatSummaries(order) ==
    IF order = <<>> THEN <<>>
    ELSE SummaryOf(Head(order)) \o ConcatSummaries(Tail(order))

\* the data rows of the summary files below gunc_output of sample s
RECURSIVE RowCount(_)
RowCount(F) ==
    IF F = {} THEN 0
    ELSE LET f == CHOOSE x \in F : TRUE
         IN  Len(vResults.files[f].rows) + RowCount(F \ {f})

TsvFilesOf(s) ==
    {f \in DOMAIN vResults.files :
        /\ Len(f) = Len(file_dict(vResults)[s]) + 2
        /\ IsPrefix(file_dict(vResults)[s] \o <<"gunc_output">>, f)
        /\ MatchesAllLevels(Last(f))}

RECURSIVE TotalRows(_)
TotalRows(S) ==
    IF S = {} THEN 0
    ELSE LET s == CHOOSE x \in S : TRUE
         IN  RowCount(TsvFilesOf(s)) + TotalRows(S \ {s})

\* C7: the renderer gets one key per enumerated sample, each with the
\* genome list of its sample, and a summary list that is the per-sample
\* record lists concatenated in some order, for every pool size and
\* every interleaving.
C7_AggregateComplete ==
    vRendered # <<>> =>
        LET ctx == vRendered[1]
        IN  /\ DOMAIN ctx.samples = VisKeys
            /\ \A s \in VisKeys : ctx.samples[s] = MagsOf(s)
            /\ \E order \in Orders(VisKeys) : ctx.summary_data = ConcatSummaries(order)
            /\ Len(ctx.summary_data) = TotalRows(VisKeys)

C7_Witness ==
    /\ vPc = "done"
    /\ vThreads = 2
    /\ VisKeys = {SampleName[1], SampleName[2]}
    /\ Len(vRendered[1].summary_data) >= 3
    /\ vRendered[1].summary_data[1].sample_id = SampleName[2]
    /\ Len(vRendered[1].samples[SampleName[1]]) = 1

\* C8: the asset copy and the rendering start only when no submitted task
\* is pending or running.
C8_RenderAfterAllTasks ==
    (vPc \in {"assets", "render", "done"} \/ <<"js">> \in vOut.dirs \/ vRendered # <<>>)
        => \A s \in DOMAIN vTask : vTask[s].state \in {"done", "failed"}

C8_Witness ==
    /\ vPc = "render"
    /\ Cardinality(DOMAIN vTask) >= 2
    /\ vThreads = 2
    /\ <<"js">> \in vOut.dirs
    /\ \A s \in DOMAIN vTask : vTask[s].state = "done"

\* C9: when a per-sample task has raised, the renderer is never invoked and
\* no report is written; visualize ends by raising the exception of a task
\* that failed, and ends normally only if no task failed.
C9_FailFast ==
    /\ (\E s \in DOMAIN vTask : vTask[s].state = "failed")
          => /\ vPc \notin {"assets", "render", "done"}
             /\ vRendered = <<>>
             /\ <<"index.html">> \notin DOMAIN vOut.files
    /\ vPc = "raised"
          => /\ Len(vExc) = 1
             /\ vTask[vExc[1]].state = "failed"
             /\ \A s \in DOMAIN vTask : vTask[s].state \in {"done", "failed"}

C9_Witness ==
    /\ vPc = "raised"
    /\ \E s \in DOMAIN vTask : vTask[s].state = "failed"
    /\ \E s \in DOMAIN vTask : vTask[s].state = "done" /\ s \in vCollected
    /\ vSummary # <<>>
    /\ vRendered = <<>>

----------------------------------------------------------------------------
(* Claims about _process_sample *)

\* the summary files of the sample with key s that lack an expected column
LackingFiles(s) ==
    {f \in TsvFilesOf(s) : ~(COLUMNS \subseteq vResults.files[f].columns)}

\* C13: _process_sample never gets past a summary file that lacks one of the
\* 13 expected columns: the task of a sample holding such a file raises
\* instead of going on to the genome files or returning records
C13_MissingColumnIsError ==
    \A s \in DOMAIN vTask :
        LackingFiles(s) # {} => vTask[s].state \notin {"running", "plotting", "done"}

\* the entries of diamond_output in the subtree of the sample with key s
GenomeFilesOf(s) ==
    LET holder == file_dict(vResults)[s] \o <<"diamond_output">>
    IN  {f \in DOMAIN vResults.files \cup vResults.dirs :
            Len(f) = Len(holder) + 1 /\ IsPrefix(holder, f)}

\* plots/<mag_id>.viz.html in the subtree of s, for the genome file f
StoredPlotOf(s, f) ==
    file_dict(vResults)[s] \o <<"plots", VizName(DotParts(Last(f))[1])>>

\* output_dir/plots/<sample_id>
OutPlotsOf(s) == IF s = "" THEN <<"plots">> ELSE <<"plots", s>>

\* C15: every file of a sample's diamond_output gets exactly one plot
\* action: the stored plot plots/<mag_id>.viz.html, when the subtree has it,
\* is copied into output_dir/plots/<sample_id> and gunc plot is not run;
\* otherwise gunc plot is run once on the file with output directory
\* output_dir/plots/<sample_id> and nothing is copied
C15_OnePlotActionPerFile ==
    \A s \in DOMAIN vTask :
        LET acts == vTask[s].acts
            files == GenomeFilesOf(s)
        IN  /\ \A i \in 1..Len(acts) : acts[i].file \in files
            /\ \A i, j \in 1..Len(acts) : acts[i].file = acts[j].file => i = j
            /\ vTask[s].state = "done" =>
                   {acts[i].file : i \in 1..Len(acts)} = files
            /\ \A i \in 1..Len(acts) :
                   /\ acts[i].dir = OutPlotsOf(s)
                   /\ IF StoredPlotOf(s, acts[i].file) \in DOMAIN vResults.files
                      THEN /\ acts[i].kind = "copy"
                           /\ acts[i].arg = StoredPlotOf(s, acts[i].file)
                           /\ acts[i].wrote =
                                  {OutPlotsOf(s) \o <<Last(StoredPlotOf(s, acts[i].file))>>}
                      ELSE /\ acts[i].kind = "plot"
                           /\ acts[i].arg = acts[i].file
                           /\ \A w \in acts[i].wrote : IsPrefix(OutPlotsOf(s), w)

\* a task returned after copying the stored plot of one genome and running
\* gunc plot for another
C15_Witness ==
    \E s \in DOMAIN vTask :
        /\ vTask[s].state = "done"
        /\ Len(vTask[s].acts) = 2
        /\ {vTask[s].acts[i].kind : i \in 1..2} = {"copy", "plot"}
        /\ \E f \in GenomeFilesOf(s) : StoredPlotOf(s, f) \in DOMAIN vResults.files
        /\ \E f \in GenomeFilesOf(s) : StoredPlotOf(s, f) \notin DOMAIN vResults.files

\* the genome files of s as the sequence the directory scan yields them in
GenomeFileSeq(s) == InScanOrder(GenomeFilesOf(s))

\* the genomes the records of a task are about
SummaryGenomes(s) == {vTask[s].summary[i].mag_id : i \in 1..Len(vTask[s].summary)}

\* C16: the genome list a task returns is the list of the first
\* dot-separated parts of the names of the sample's diamond_output entries,
\* whatever the summary files hold: a genome with a diamond_output file and
\* no summary row is listed, a genome with summary rows and no
\* diamond_output file is not
C16_MagsFromDiamondOutput ==
    \A s \in DOMAIN vTask :
        vTask[s].state = "done" =>
            LET files == GenomeFileSeq(s)
            IN  vTask[s].mags = [i \in 1..Len(files) |-> DotParts(Last(files[i]))[1]]

\* tasks returned in which a listed genome has no summary row, and in which
\* a genome with summary rows is not listed
C16_Witness ==
    /\ \E s \in DOMAIN vTask :
           /\ vTask[s].state = "done"
           /\ \E i \in 1..Len(vTask[s].mags) : vTask[s].mags[i] \notin SummaryGenomes(s)
    /\ \E s \in DOMAIN vTask :
           /\ vTask[s].state = "done"
           /\ \E g \in SummaryGenomes(s) :
                  \A i \in 1..Len(vTask[s].mags) : vTask[s].mags[i] # g

----------------------------------------------------------------------------
(* Claims about the worker pool of visualize *)

\* the work items that have not been started
NotStarted == {s \in DOMAIN vTask : vTask[s].state \in {"new", "pending"}}

\* C19: once the loop over as_completed has seen the first failure of a
\* task, no task that has not started yet is started
C19_NoStartAfterObservedFailure ==
    [][vExc # <<>> => NotStarted \subseteq NotStarted']_vars

\* the paths under output_dir the task of s has written
WrittenBy(s) == UNION {vTask[s].acts[i].wrote : i \in 1..Len(vTask[s].acts)}

\* C20: the task of sample s writes only under output_dir/plots/<s>, and no
\* path is written by the tasks of two samples, in any interleaving
C20_DisjointWrites ==
    /\ \A s \in DOMAIN vTask :
           \A w \in WrittenBy(s) :
               /\ Len(w) > Len(OutPlotsOf(s))
               /\ SubSeq(w, 1, Len(OutPlotsOf(s))) = OutPlotsOf(s)
    /\ \A s, u \in DOMAIN vTask : s # u => WrittenBy(s) \cap WrittenBy(u) = {}

\* two tasks are running at once and each has written a plot of the same
\* file name
C20_Witness ==
    \E s, u \in DOMAIN vTask :
        /\ s # u
        /\ vTask[s].state = "running"
        /\ vTask[u].state = "running"
        /\ \E w \in WrittenBy(s) : \E x \in WrittenBy(u) : Last(w) = Last(x)

----------------------------------------------------------------------------
(* Claims about the transformers *)

\* the files gunc_output/*.all_levels.tsv under the enumerated sample subtrees
MatchingFiles ==
    {f \in DOMAIN tResults.files \cup tResults.dirs :
        \E k \in DOMAIN file_dict(tResults) :
            /\ Len(f) = Len(file_dict(tResults)[k]) + 2
            /\ IsPrefix(file_dict(tResults)[k] \o <<"gunc_output">>, f)
            /\ MatchesAllLevels(Last(f))}

\* C11: _read_dataframes ends with the error "No GUNC results found in the
\* directory format" exactly when no enumerated sample subtree holds a file
\* gunc_output/*.all_levels.tsv; in that case it never returns a table
C11_NoResultsIsError ==
    tPc \in {"returned", "raised"} =>
        /\ (tPc = "raised" /\ tErr = "No GUNC results found in the directory format")
               <=> MatchingFiles = {}
        /\ tPc = "returned" => MatchingFiles # {} /\ Len(tOut) = 1

\* the error was raised for a directory whose only sample subtree holds no
\* matching file
C11_Witness ==
    /\ tPc = "raised"
    /\ tErr = "No GUNC results found in the directory format"
    /\ MatchingFiles = {}
    /\ \E k \in DOMAIN file_dict(tResults) : file_dict(tResults)[k] \in tResults.dirs

\* every top-level entry of t is a directory and every summary file has
\* exactly the expected columns
WellFormed(t) ==
    /\ \A f \in DOMAIN t.files : Len(f) > 1
    /\ \A f \in DOMAIN t.files :
           MatchesAllLevels(Last(f)) => t.files[f].columns = COLUMNS

\* the sample whose subtree holds the matching file f, "" in a directory
\* that is not partitioned
HolderOf(f) == IF <<"gunc_output">> \in tResults.dirs THEN "" ELSE f[1]

\* one entry per data row of every matching file: the sample, the genome
\* and the position of the row in its file
SourceRows ==
    UNION {{<<HolderOf(f), tResults.files[f].rows[i].genome, i - 1>> :
                i \in 1..Len(tResults.files[f].rows)} : f \in MatchingFiles}

\* the same entry for row i of the returned table
TableRow(i) ==
    LET row == tOut[1].rows[i]
    IN  <<IF row.sample_id = <<>> THEN "" ELSE row.sample_id[1], row.id[1], row.id[2]>>

\* C12: the table returned for a well-formed directory has one row per data
\* row of the matching files, exactly the 13 expected columns, and the
\* column sample_id exactly when the directory is partitioned by sample;
\* the sample_id of a row is then the sample whose subtree held its file
C12_TableShape ==
    (tPc = "returned" /\ WellFormed(tResults)) =>
        LET table == tOut[1]
            partitioned == <<"gunc_output">> \notin tResults.dirs
        IN  /\ Len(table.rows) = Cardinality(SourceRows)
            /\ {TableRow(i) : i \in 1..Len(table.rows)} = SourceRows
            /\ table.columns \ {"sample_id"} = COLUMNS
            /\ "sample_id" \in table.columns <=> partitioned
            /\ \A i \in 1..Len(table.rows) :
                   table.rows[i].sample_id # <<>> <=> partitioned

\* a table was returned that holds rows of two samples, more than one of
\* them from one file
C12_Witness ==
    /\ tPc = "returned"
    /\ WellFormed(tResults)
    /\ Cardinality({TableRow(i)[1] : i \in 1..Len(tOut[1].rows)}) = 2
    /\ Len(tOut[1].rows) > 2

----------------------------------------------------------------------------
(* Claims about GUNCResultsFormat *)

\* C14: validation succeeds exactly when the header holds each of the 13
\* expected columns once and no other column, in any order; otherwise it
\* raises ValidationError "GUNC results file does not contain expected
\* columns."
C14_ValidIffExpectedColumns ==
    gPc \in {"valid", "raised"} =>
        /\ gPc = "valid" <=>
               /\ Len(gHeader) = Cardinality(COLUMNS)
               /\ {gHeader[i] : i \in 1..Len(gHeader)} = COLUMNS
        /\ gPc = "raised" =>
               gErr = "GUNC results file does not contain expected columns."

\* a header with every expected column in another order was accepted
C14_Witness ==
    /\ gPc = "valid"
    /\ gHeader # ColumnList

----------------------------------------------------------------------------
(* Claims about _run_gunc *)

\* the arguments every gunc run invocation starts with
Template ==
    <<"gunc", "run", "--db_file", "/db/gunc_db.dmnd",
      "--threads", ToString(rArgs.threads),
      "--file_suffix", ".fasta", "--detailed_output",
      "--min_mapped_genes", ToString(rArgs.min_mapped_genes)>>
    \o (IF rArgs.sensitive THEN <<"--sensitive">> ELSE <<>>)
    \o (IF rArgs.use_species_level THEN <<"--use_species_level">> ELSE <<>>)

\* the command for the partition x: a sample id, or "" for the roots
CommandFor(x) ==
    Template \o <<"--input_dir", MagsPathStr(x), "--out_dir", ResultsPathStr(x)>>

\* the partitions of the input: its samples, or the one collection
Partitions == IF rMulti THEN rSamples ELSE <<"">>

\* C17: the commands issued are, in order, the commands of the first
\* partitions of the input: the template (with --sensitive and
\* --use_species_level exactly as the flags are set) followed by
\* --input_dir and --out_dir of that sample, or of the roots, and nothing
\* of another invocation; when _run_gunc returns, every partition was
\* invoked exactly once
C17_OneInvocationPerPartition ==
    rPc # "idle" =>
        /\ Len(rCalls) <= Len(Partitions)
        /\ \A i \in 1..Len(rCalls) : rCalls[i].cmd = CommandFor(Partitions[i])
        /\ rPc = "returned" => Len(rCalls) = Len(Partitions)

\* _run_gunc returned after one invocation for each of two samples, with
\* --sensitive and without --use_species_level
C17_Witness ==
    /\ rPc = "returned"
    /\ rMulti
    /\ Len(rCalls) = 2
    /\ rArgs.sensitive
    /\ ~rArgs.use_species_level

\* C18: a gunc run that exits with a non-zero code ends _run_gunc: the
\* failed command is the last command issued (it is not issued again and
\* no later sample is invoked), and _run_gunc raises instead of returning
\* the result directory
C18_FailureIsFatal ==
    /\ \A i \in 1..Len(rCalls) :
           rCalls[i].code # 0 => i = Len(rCalls) /\ rPc = "raised"
    /\ rPc = "returned" => \A i \in 1..Len(rCalls) : rCalls[i].code = 0

\* the invocation for the first of two samples failed: it was issued once,
\* the second sample was never invoked, and _run_gunc raised
C18_Witness ==
    /\ rPc = "raised"
    /\ rMulti
    /\ Len(rSamples) = 2
    /\ Len(rCalls) = 1
    /\ rCalls[1].code # 0
    /\ ~ENABLED RunNext

\* the elements of a sequence are pairwise different
NoRepeats(seq) == \A i, j \in 1..Len(seq) : seq[i] = seq[j] => i = j

\* C21: visualize has exactly one work item per item of
\* results.file_dict(); an item is submitted once and started once (it is
\* waiting to be submitted, queued, or was taken by a worker, and never goes
\* back), and at no time do more than `threads` tasks run
C21_OneTaskPerSampleBounded ==
    /\ [](vPc # "idle" =>
            /\ DOMAIN vTask = DOMAIN file_dict(vResults)
            /\ Cardinality(Running) <= vThreads
            /\ NoRepeats(vUnsub \o vQueue)
            /\ {vUnsub[i] : i \in 1..Len(vUnsub)} =
                   {s \in DOMAIN vTask : vTask[s].state = "new"}
            /\ {vQueue[i] : i \in 1..Len(vQueue)} =
                   {s \in DOMAIN vTask : vTask[s].state = "pending"})
    /\ [][\A s \in DOMAIN vTask :
              /\ vTask[s].state # "new" => vTask'[s].state # "new"
              /\ vTask[s].state \notin {"new", "pending"} =>
                     vTask'[s].state \notin {"new", "pending"}
              /\ vTask[s].state \in {"done", "failed"} =>
                     vTask'[s].state = vTask[s].state]_vars

\* the pool of one worker is busy while another work item waits in the queue
C21_Witness ==
    /\ vThreads = 1
    /\ Cardinality(Running) = 1
    /\ vQueue # <<>>

----------------------------------------------------------------------------
(* Claims about the consumers of result directories *)

\* C22: no step of visualize, of its tasks or of their gunc plot processes
\* changes the tree of `results`, every plot action writes below
\* output_dir, and no step of collate_gunc_results changes one of its
\* input trees
C22_InputsReadOnly ==
    /\ [](\A s \in DOMAIN vTask :
              \A i \in 1..Len(vTask[s].acts) : vTask[s].acts[i].base = "output_dir")
    /\ [][vResults' = vResults /\ cInputs' = cInputs]_vars

\* visualize rendered the report after a task copied a stored plot and a
\* task ran gunc plot, both writing files
C22_Witness ==
    /\ vPc = "done"
    /\ \E s \in DOMAIN vTask : \E i \in 1..Len(vTask[s].acts) :
           vTask[s].acts[i].kind = "copy" /\ vTask[s].acts[i].wrote # {}
    /\ \E s \in DOMAIN vTask : \E i \in 1..Len(vTask[s].acts) :
           vTask[s].acts[i].kind = "plot" /\ vTask[s].acts[i].wrote # {}
    /\ DOMAIN vOut.files # {}

\* the tasks whose worker is inside the gunc plot process
Plotting == {s \in DOMAIN vTask : vTask[s].state = "plotting"}

\* C23: when the threads keep running and every gunc plot process ends,
\* visualize eventually renders the report or raises; as long as a gunc
\* plot process has not ended its worker does nothing else, and visualize
\* has neither left the pool nor rendered nor raised
C23_Termination ==
    /\ <>(vPc \in {"done", "raised"})
    /\ [](Plotting # {} => vPc \in {"submit", "collect", "exit"})
    /\ [][\A s \in Plotting :
              \/ vTask'[s] = vTask[s]
              \/ vTask'[s].state \in {"running", "failed"}]_vars

\* every other task was collected and the calling thread waits in
\* as_completed for the task whose gunc plot process is still running
C23_Witness ==
    /\ vPc = "collect"
    /\ Cardinality(Plotting) = 1
    /\ vCollected = DOMAIN vTask \ Plotting
    /\ vCollected # {}

----------------------------------------------------------------------------
(* Claims about the keys of a collated directory *)

\* the keys of the file_dict() of all inputs
InputKeys == UNION {DOMAIN file_dict(cInputs[i]) : i \in 1..Len(cInputs)}

\* C24: the keys of the file_dict() of the directory collate_gunc_results
\* returns are the keys of the file_dict() of its inputs, whether the
\* inputs are partitioned by sample, unpartitioned, or a mix of both
C24_KeysPreserved ==
    cPc = "done" => DOMAIN file_dict(cOut) = InputKeys

----------------------------------------------------------------------------
(* Claims about the row identifiers of the table *)

\* C25: the index labels of the table _read_dataframes returns are pairwise
\* different over all files and samples of the directory, also when one
\* genome occurs under two samples
C25_UniqueRowIds ==
    tPc = "returned" =>
        \A i, j \in 1..Len(tOut[1].rows) :
            tOut[1].rows[i].id = tOut[1].rows[j].id => i = j

----------------------------------------------------------------------------
(* Claims about the genome list of a sample *)

\* C26: the genome list a task returns holds no identifier twice, whatever
\* diamond_output holds, also for file names with the same first
\* dot-separated part
C26_MagsDistinct ==
    \A s \in DOMAIN vTask :
        vTask[s].state = "done" =>
            \A i, j \in 1..Len(vTask[s].mags) :
                vTask[s].mags[i] = vTask[s].mags[j] => i = j

====
